---- MODULE Spec2Model ----
(***************************************************************************)
(* Model of code_analyzer.py: ProjectAnalyzer (find_files, run_pylint,     *)
(* run_flake8, check_formatting, run_eslint, check_prettier, analyze) and  *)
(* main.  External tools (pylint, flake8, black, isort, npx eslint, npx    *)
(* prettier) are the environment: every call site draws its outcome from   *)
(* the outcomes the call can have (a value, an exit code, an exception).   *)
(***************************************************************************)
EXTENDS Integers, Sequences, FiniteSets

VARIABLES pc, caller, project, disk, python_files, js_ts_files, results,
          idx, calls, phases, ret, out, ncalls

vars == <<pc, caller, project, disk, python_files, js_ts_files, results,
          idx, calls, phases, ret, out, ncalls>>

(* ------------------------------ bounds -------------------------------- *)
\* Largest number of files the walked directory holds.
MaxFiles == 2
\* Largest number of direct calls of check_formatting on one analyzer.
MaxRuns == 2

(* ------------------------- paths and file names ----------------------- *)
\* File names (as character sequences) a directory listing is drawn from.
NameList ==
  << <<"a", ".", "p", "y">>,
     <<"b", ".", "p", "y">>,
     <<"c", ".", "j", "s">>,
     <<"d", ".", "j", "s", "x">>,
     <<"e", ".", "t", "s">>,
     <<"f", ".", "t", "s", "x">>,
     <<"g", ".", "j", "s", "o", "n">>,
     <<"h", ".", "p", "y", "c">>,
     <<"n", "u", "m", "p", "y">> >>

\* self.project_path
ProjectPath == <<"p", "r", "j">>

NoFile == <<>>

\* str.endswith(suffix)
EndsWith(s, suf) ==
  /\ Len(s) >= Len(suf)
  /\ SubSeq(s, Len(s) - Len(suf) + 1, Len(s)) = suf

\* os.path.join(root, file)
Join(root, file) == root \o <<"/">> \o file

\* IsPython comparing with the suffix 'py', the dot forgotten.
IsPythonNoDot(file) == EndsWith(file, <<"p", "y">>)
\* file.endswith('.py')
IsPython(file) == EndsWith(file, <<".", "p", "y">>)

\* file.endswith(('.js', '.jsx', '.ts', '.tsx'))
IsJsTs(file) ==
  \/ EndsWith(file, <<".", "j", "s">>)
  \/ EndsWith(file, <<".", "j", "s", "x">>)
  \/ EndsWith(file, <<".", "t", "s">>)
  \/ EndsWith(file, <<".", "t", "s", "x">>)

\* The paths find_files appends to python_files / js_ts_files while it walks
\* the listing `files` of directory `root` (if / elif of lines 29-32).
RECURSIVE FindPython(_, _)
FindPython(root, files) ==
  IF files = <<>> THEN <<>>
  ELSE (IF IsPython(Head(files)) THEN <<Join(root, Head(files))>> ELSE <<>>)
       \o FindPython(root, Tail(files))

RECURSIVE FindJsTs(_, _)
FindJsTs(root, files) ==
  IF files = <<>> THEN <<>>
  ELSE (IF ~IsPython(Head(files)) /\ IsJsTs(Head(files))
          THEN <<Join(root, Head(files))>> ELSE <<>>)
       \o FindJsTs(root, Tail(files))

\* The directory listings os.walk can yield: the names at the chosen
\* positions of NameList, in listing order, at most MaxFiles of them.
RECURSIVE Listing(_, _)
Listing(S, i) ==
  IF i > Len(NameList) THEN <<>>
  ELSE (IF i \in S THEN <<NameList[i]>> ELSE <<>>) \o Listing(S, i + 1)

Projects ==
  { Listing(S, 1) : S \in { T \in SUBSET (1 .. Len(NameList)) : Cardinality(T) <= MaxFiles } }

Range(s) == { s[i] : i \in 1 .. Len(s) }

(* ------------------------------ report -------------------------------- *)
\* Keys of self.results, in insertion order (lines 17-23).
ToolOrder == <<"pylint", "flake8", "formatting", "eslint", "prettier">>
Tools == Range(ToolOrder)

\* A plain error string (f"...{file_path}: {str(e)}"); file is NoFile when the
\* message names none.
StrEntry(msg, file) ==
  [kind |-> "str", file |-> file, tool |-> "", msg |-> msg, data |-> <<"exc">>]

\* A dict entry ({'file': ..., ...}).
DictEntry(file, tool, msg, data) ==
  [kind |-> "dict", file |-> file, tool |-> tool, msg |-> msg, data |-> data]

\* self.results[tool].append(entry) for each entry of es, in order.
AppendTo(res, tool, es) == [res EXCEPT ![tool] = @ \o es]

\* One record of the log of external calls made.
Call(site, arg, outcome) == [site |-> site, arg |-> arg, outcome |-> outcome]

(* ------------------------- environment outcomes ----------------------- *)
\* What the formatting checks of one file find on disk: whether open/read
\* succeeds, what black.format_file_contents does (raises NothingChanged,
\* returns reformatted text, raises another exception) and what
\* isort.check_file does (True, False, raises).  "-" marks a check that is
\* not reached because reading failed.
FmtConds ==
  { [read |-> "raise", black |-> "-", isort |-> "-"] }
  \cup { [read |-> "ok", black |-> b, isort |-> s] :
           b \in {"NothingChanged", "changed", "raise"},
           s \in {"sorted", "unsorted", "raise"} }

\* report.get_statistics('E'): a list of statistics lines, possibly empty.
StatsValues == { <<>>, <<"E225", "E501">> }

\* result.stdout of `npx eslint --format=json <file>`.
EslintStdouts == { "", "[]", "[issues]", "not json" }

\* json.loads(stdout): ok is FALSE when it raises.
JsonLoads(s) ==
  CASE s = "[]" -> [ok |-> TRUE, val |-> <<>>]
    [] s = "[issues]" -> [ok |-> TRUE, val |-> <<"issue">>]
    [] OTHER -> [ok |-> FALSE, val |-> <<>>]

(* ------------------------------ stdout -------------------------------- *)
Line(kind, text, item) == [kind |-> kind, text |-> text, item |-> item]

\* tool.upper() on the keys a report can have.
Upper(key) ==
  CASE key = "pylint" -> "PYLINT"
    [] key = "flake8" -> "FLAKE8"
    [] key = "formatting" -> "FORMATTING"
    [] key = "eslint" -> "ESLINT"
    [] key = "prettier" -> "PRETTIER"
    [] key = "error" -> "ERROR"

\* The str analyze returns under the key "error" (line 161), as characters.
ErrorMessage ==
  << "N", "o", " ", "P", "y", "t", "h", "o", "n", " ", "o", "r", " ", "J",
     "a", "v", "a", "S", "c", "r", "i", "p", "t", "/", "T", "y", "p", "e",
     "S", "c", "r", "i", "p", "t", " ", "f", "i", "l", "e", "s", " ", "f",
     "o", "u", "n", "d", " ", "i", "n", " ", "t", "h", "e", " ", "p", "r",
     "o", "j", "e", "c", "t" >>

\* {"error": "..."}: one key whose value is a str, which iterates by character.
ErrorReport == << [key |-> "error", type |-> "str", items |-> ErrorMessage] >>

\* self.results as returned by analyze: the five keys in insertion order.
ResultsReport(res) ==
  [i \in 1 .. Len(ToolOrder) |->
     [key |-> ToolOrder[i], type |-> "list", items |-> res[ToolOrder[i]]]]

\* for tool, issues in results.items(): header, then "No issues found" or one
\* line per element that iterating `issues` yields (lines 201-207).
RECURSIVE Render(_)
Render(report) ==
  IF report = <<>> THEN <<>>
  ELSE LET b == Head(report)
       IN  <<Line("header", Upper(b.key), b.key)>>
           \o (IF Len(b.items) = 0
                 THEN <<Line("none", "No issues found", b.key)>>
                 ELSE [i \in 1 .. Len(b.items) |-> Line("item", b.key, b.items[i])])
           \o Render(Tail(report))

(* --------------------------- phase helpers ---------------------------- *)
\* The outcomes of one style_guide.check_files([file]) followed by
\* report.get_statistics('E'): an exception, or the statistics list.
Flake8Outcomes ==
  { [raised |-> TRUE, stats |-> <<>>] }
  \cup { [raised |-> FALSE, stats |-> s] : s \in StatsValues }

\* Flake8FileEntries without the test of line 48: an entry for every file.
Flake8FileEntriesAlways(file, o) ==
  IF o.raised THEN <<StrEntry("Error checking", file)>>
  ELSE <<DictEntry(file, "", "errors", o.stats)>>
\* What the body of run_flake8's loop appends for one file (lines 46-54).
Flake8FileEntries(file, o) ==
  IF o.raised THEN <<StrEntry("Error checking", file)>>
  ELSE IF o.stats # <<>> THEN <<DictEntry(file, "", "errors", o.stats)>>
  ELSE <<>>

\* FormattingFileEntries without the `except black.NothingChanged: pass` of
\* lines 65-66: NothingChanged is recorded like any other exception.
FormattingFileEntriesNoPass(file, c) ==
  IF c.read = "raise" THEN <<StrEntry("Error checking", file)>>
  ELSE (IF c.black \in {"raise", "NothingChanged"}
          THEN <<DictEntry(file, "black", "str(e)", <<"exc">>)>> ELSE <<>>)
       \o (CASE c.isort = "unsorted" ->
                  <<DictEntry(file, "isort", "Imports are not properly sorted", <<>>)>>
             [] c.isort = "raise" -> <<StrEntry("Error checking", file)>>
             [] OTHER -> <<>>)
\* What the body of check_formatting's loop appends for one file whose
\* checks find condition c (lines 59-82).
FormattingFileEntries(file, c) ==
  IF c.read = "raise" THEN <<StrEntry("Error checking", file)>>
  ELSE (IF c.black = "raise"
          THEN <<DictEntry(file, "black", "str(e)", <<"exc">>)>> ELSE <<>>)
       \o (CASE c.isort = "unsorted" ->
                  <<DictEntry(file, "isort", "Imports are not properly sorted", <<>>)>>
             [] c.isort = "raise" -> <<StrEntry("Error checking", file)>>
             [] OTHER -> <<>>)

\* The external calls the body of check_formatting's loop makes for one file.
FormattingFileCalls(file, c) ==
  <<Call("open", file, c.read)>>
  \o (IF c.read = "raise" THEN <<>>
      ELSE <<Call("black.format_file_contents", file, c.black),
             Call("isort.check_file", file, c.isort)>>)

\* Whether the per-file body of run_eslint's loop raises on outcome o
\* ("raise": subprocess.run raises; otherwise o is result.stdout).
EslintFileRaises(o) == o = "raise" \/ (o # "" /\ ~JsonLoads(o).ok)

\* What run_eslint appends for one file on a non-raising outcome (105-111).
EslintFileEntries(file, o) ==
  IF o # "" /\ JsonLoads(o).val # <<>>
    THEN <<DictEntry(file, "", "issues", JsonLoads(o).val)>>
    ELSE <<>>

\* What the body of check_prettier's loop appends for one file (134-150):
\* o is "raise" or the exit code.
PrettierFileEntries(file, o) ==
  IF o = "raise" THEN <<DictEntry(file, "", "Error checking file", <<"exc">>)>>
  ELSE IF o # "0" THEN <<DictEntry(file, "", "File is not properly formatted", <<>>)>>
  ELSE <<>>

\* Where control goes when a phase returns: back into analyze (caller =
\* "analyze", lines 165-182) or to the direct caller of the method.
AfterPrimary ==
  IF caller = "analyze"
    THEN (IF js_ts_files # <<>> THEN "eslint_probe" ELSE "return")
    ELSE "idle"
AfterEslint == IF caller = "analyze" THEN "prettier_probe" ELSE "idle"
AfterPrettier == IF caller = "analyze" THEN "return" ELSE "idle"

\* print(...) of a progress line inside analyze.
Progress(o, text) == IF caller = "analyze" THEN Append(o, Line("progress", text, "")) ELSE o

(* ------------------------------- Init --------------------------------- *)
InitCommon ==
  /\ project \in Projects
  /\ disk \in [Range(FindPython(ProjectPath, project)) -> FmtConds]
  /\ results = [t \in Tools |-> <<>>]
  /\ idx = 1
  /\ calls = <<>>
  /\ phases = <<>>
  /\ ret = <<>>
  /\ out = <<>>
  /\ ncalls = 0

\* The process starts in main; ProjectAnalyzer.__init__ has not found files.
Init ==
  /\ InitCommon
  /\ pc = "main"
  /\ caller = "analyze"
  /\ python_files = <<>>
  /\ js_ts_files = <<>>

(* ------------------------------- main --------------------------------- *)
\* len(sys.argv) != 2: usage message, sys.exit(1)  (lines 185-187)
MainUsage ==
  /\ pc = "main"
  /\ \E argc \in {1, 3} :
       out' = Append(out, Line("usage", "Usage: python code_analyzer.py <project_path>", ""))
  /\ pc' = "exit1"
  /\ UNCHANGED <<caller, project, disk, python_files, js_ts_files, results,
                 idx, calls, phases, ret, ncalls>>

\* not os.path.exists(project_path): error message, sys.exit(1)  (190-192)
MainPathMissing ==
  /\ pc = "main"
  /\ out' = Append(out, Line("nopath", "Error: Path does not exist", ""))
  /\ pc' = "exit1"
  /\ UNCHANGED <<caller, project, disk, python_files, js_ts_files, results,
                 idx, calls, phases, ret, ncalls>>

\* analyzer = ProjectAnalyzer(project_path); analyzer.analyze() is entered.
MainStart ==
  /\ pc = "main"
  /\ pc' = "find"
  /\ out' = Append(out, Line("progress", "Starting project analysis...", ""))
  /\ UNCHANGED <<caller, project, disk, python_files, js_ts_files, results,
                 idx, calls, phases, ret, ncalls>>

(* ------------------------------ analyze ------------------------------- *)
\* AnalyzeDiscover without the empty-project return of lines 160-161.
AnalyzeDiscoverNoEmptyCheck ==
  /\ pc = "find"
  /\ python_files' = python_files \o FindPython(ProjectPath, project)
  /\ js_ts_files' = js_ts_files \o FindJsTs(ProjectPath, project)
  /\ phases' = Append(phases, "find_files")
  /\ out' = Append(out, Line("progress", "Found", ""))
  /\ pc' = IF python_files' # <<>> THEN "pylint"
           ELSE IF js_ts_files' # <<>> THEN "eslint_probe" ELSE "return"
  /\ ret' = ret
  /\ UNCHANGED <<caller, project, disk, results, idx, calls, ncalls>>
\* self.find_files(); the empty-project return; the "Found ..." line and the
\* branch into the first phase (lines 158-165, 175).
AnalyzeDiscover ==
  /\ pc = "find"
  /\ python_files' = python_files \o FindPython(ProjectPath, project)
  /\ js_ts_files' = js_ts_files \o FindJsTs(ProjectPath, project)
  /\ phases' = Append(phases, "find_files")
  /\ IF python_files' = <<>> /\ js_ts_files' = <<>>
       THEN /\ ret' = ErrorReport
            /\ pc' = "returned"
            /\ out' = out
       ELSE /\ ret' = ret
            /\ out' = Append(out, Line("progress", "Found", ""))
            /\ pc' = IF python_files' # <<>> THEN "pylint" ELSE "eslint_probe"
  /\ UNCHANGED <<caller, project, disk, results, idx, calls, ncalls>>

\* return self.results  (line 182)
AnalyzeReturn ==
  /\ pc = "return"
  /\ ret' = ResultsReport(results)
  /\ pc' = "returned"
  /\ UNCHANGED <<caller, project, disk, python_files, js_ts_files, results,
                 idx, calls, phases, out, ncalls>>

\* main prints the report (lines 198-207).
MainPrint ==
  /\ pc = "returned"
  /\ out' = out \o <<Line("banner", "Analysis Results:", ""),
                     Line("banner", "================", "")>> \o Render(ret)
  /\ pc' = "printed"
  /\ UNCHANGED <<caller, project, disk, python_files, js_ts_files, results,
                 idx, calls, phases, ret, ncalls>>

(* ------------------------------ run_pylint ---------------------------- *)
\* RunPylint appending its error string to the 'flake8' bucket.
RunPylintWrongBucket ==
  /\ pc = "pylint"
  /\ \E o \in {"ok", "raise"} :
       /\ calls' = Append(calls, Call("pylint.lint.Run", NoFile, o))
       /\ results' = IF o = "raise"
                       THEN AppendTo(results, "flake8", <<StrEntry("Error running Pylint", NoFile)>>)
                       ELSE results
  /\ phases' = Append(phases, "run_pylint")
  /\ out' = Progress(Progress(out, "Running Pylint..."), "Running Flake8...")
  /\ pc' = "flake8_setup"
  /\ UNCHANGED <<caller, project, disk, python_files, js_ts_files, idx, ret, ncalls>>
\* One batch call of pylint.lint.Run inside try/except Exception (34-40).
RunPylint ==
  /\ pc = "pylint"
  /\ \E o \in {"ok", "raise"} :
       /\ calls' = Append(calls, Call("pylint.lint.Run", NoFile, o))
       /\ results' = IF o = "raise"
                       THEN AppendTo(results, "pylint", <<StrEntry("Error running Pylint", NoFile)>>)
                       ELSE results
  /\ phases' = Append(phases, "run_pylint")
  /\ out' = Progress(Progress(out, "Running Pylint..."), "Running Flake8...")
  /\ pc' = "flake8_setup"
  /\ UNCHANGED <<caller, project, disk, python_files, js_ts_files, idx, ret, ncalls>>

(* ------------------------------ run_flake8 ---------------------------- *)
\* style_guide = flake8.get_style_guide() (line 44) is outside any try: an
\* exception here leaves run_flake8, analyze and main.
RunFlake8Setup ==
  /\ pc = "flake8_setup"
  /\ phases' = Append(phases, "run_flake8")
  /\ \E o \in {"ok", "raise"} :
       /\ calls' = Append(calls, Call("flake8.get_style_guide", NoFile, o))
       /\ IF o = "raise"
            THEN /\ pc' = "raised"
                 /\ out' = out
            ELSE /\ pc' = IF python_files # <<>> THEN "flake8" ELSE "formatting"
                 /\ out' = IF python_files # <<>> THEN out
                           ELSE Progress(out, "Checking Python code formatting...")
  /\ idx' = 1
  /\ UNCHANGED <<caller, project, disk, python_files, js_ts_files, results, ret, ncalls>>

\* One iteration of the loop of lines 45-54.
RunFlake8File ==
  /\ pc = "flake8"
  /\ idx <= Len(python_files)
  /\ \E o \in Flake8Outcomes :
       /\ calls' = Append(calls, Call("style_guide.check_files", python_files[idx], o))
       /\ results' = AppendTo(results, "flake8", Flake8FileEntries(python_files[idx], o))
  /\ IF idx = Len(python_files)
       THEN /\ pc' = "formatting"
            /\ idx' = 1
            /\ out' = Progress(out, "Checking Python code formatting...")
       ELSE /\ pc' = pc
            /\ idx' = idx + 1
            /\ out' = out
  /\ UNCHANGED <<caller, project, disk, python_files, js_ts_files, phases, ret, ncalls>>

(* --------------------------- check_formatting ------------------------- *)
\* One iteration of the loop of lines 58-82; the checks read the file and
\* never write it.
CheckFormattingFile ==
  /\ pc = "formatting"
  /\ idx <= Len(python_files)
  /\ LET f == python_files[idx]
     IN  /\ calls' = calls \o FormattingFileCalls(f, disk[f])
         /\ results' = AppendTo(results, "formatting", FormattingFileEntries(f, disk[f]))
  /\ phases' = IF idx = 1 THEN Append(phases, "check_formatting") ELSE phases
  /\ IF idx = Len(python_files)
       THEN /\ pc' = AfterPrimary
            /\ idx' = 1
            /\ out' = IF AfterPrimary = "eslint_probe"
                        THEN Progress(out, "Running ESLint...") ELSE out
       ELSE /\ pc' = pc
            /\ idx' = idx + 1
            /\ out' = out
  /\ UNCHANGED <<caller, project, disk, python_files, js_ts_files, ret, ncalls>>

(* ------------------------------ run_eslint ---------------------------- *)
\* RunEslintProbe without the returns after a failed probe: the per-file
\* loop is entered whatever the probe did.
RunEslintProbeKeepsGoing ==
  /\ pc = "eslint_probe"
  /\ phases' = Append(phases, "run_eslint")
  /\ idx' = 1
  /\ \E o \in {"0", "1", "raise"} :
       /\ calls' = Append(calls, Call("eslint --version", NoFile, o))
       /\ results' = IF o = "0" THEN results
                     ELSE AppendTo(results, "eslint", <<StrEntry("Error: ESLint", NoFile)>>)
       /\ pc' = "eslint"
       /\ out' = out
  /\ UNCHANGED <<caller, project, disk, python_files, js_ts_files, ret, ncalls>>
\* The empty-set return, the version probe and its two failure exits
\* (lines 86-95, 112-113).  o is "raise" or the probe's exit code.
RunEslintProbe ==
  /\ pc = "eslint_probe"
  /\ phases' = Append(phases, "run_eslint")
  /\ idx' = 1
  /\ IF js_ts_files = <<>>
       THEN /\ pc' = AfterEslint
            /\ out' = Progress(out, "Checking JS/TS formatting with Prettier...")
            /\ UNCHANGED <<calls, results>>
       ELSE \E o \in {"0", "1", "raise"} :
              /\ calls' = Append(calls, Call("eslint --version", NoFile, o))
              /\ results' =
                   CASE o = "1" -> AppendTo(results, "eslint",
                                     <<StrEntry("Error: ESLint is not installed", NoFile)>>)
                     [] o = "raise" -> AppendTo(results, "eslint",
                                     <<StrEntry("Error running ESLint", NoFile)>>)
                     [] OTHER -> results
              /\ pc' = IF o = "0" THEN "eslint" ELSE AfterEslint
              /\ out' = IF o = "0" THEN out
                        ELSE Progress(out, "Checking JS/TS formatting with Prettier...")
  /\ UNCHANGED <<caller, project, disk, python_files, js_ts_files, ret, ncalls>>

\* One iteration of the loop of lines 98-111; the try of line 89 encloses the
\* whole loop, so an exception in one iteration ends the loop (112-113).
RunEslintFile ==
  /\ pc = "eslint"
  /\ idx <= Len(js_ts_files)
  /\ \E o \in EslintStdouts \cup {"raise"} :
       /\ calls' = Append(calls, Call("eslint --format=json", js_ts_files[idx], o))
       /\ results' =
            IF EslintFileRaises(o)
              THEN AppendTo(results, "eslint", <<StrEntry("Error running ESLint", NoFile)>>)
              ELSE AppendTo(results, "eslint", EslintFileEntries(js_ts_files[idx], o))
       /\ IF EslintFileRaises(o) \/ idx = Len(js_ts_files)
            THEN /\ pc' = AfterEslint
                 /\ idx' = 1
                 /\ out' = Progress(out, "Checking JS/TS formatting with Prettier...")
            ELSE /\ pc' = pc
                 /\ idx' = idx + 1
                 /\ out' = out
  /\ UNCHANGED <<caller, project, disk, python_files, js_ts_files, phases, ret, ncalls>>

(* ---------------------------- check_prettier -------------------------- *)
\* The empty-set return, the version probe and its failure exits (117-130,
\* 151-152).  o is the exit code, "FileNotFoundError" or "raise".
CheckPrettierProbe ==
  /\ pc = "prettier_probe"
  /\ phases' = Append(phases, "check_prettier")
  /\ idx' = 1
  /\ IF js_ts_files = <<>>
       THEN /\ pc' = AfterPrettier
            /\ UNCHANGED <<calls, results>>
       ELSE \E o \in {"0", "1", "FileNotFoundError", "raise"} :
              /\ calls' = Append(calls, Call("prettier --version", NoFile, o))
              /\ results' =
                   CASE o = "1" -> AppendTo(results, "prettier",
                                     <<StrEntry("Error: Prettier is not installed", NoFile)>>)
                     [] o = "FileNotFoundError" -> AppendTo(results, "prettier",
                                     <<StrEntry("Error: npx not found", NoFile)>>)
                     [] o = "raise" -> AppendTo(results, "prettier",
                                     <<StrEntry("Error running Prettier", NoFile)>>)
                     [] OTHER -> results
              /\ pc' = IF o = "0" THEN "prettier" ELSE AfterPrettier
  /\ UNCHANGED <<caller, project, disk, python_files, js_ts_files, ret, out, ncalls>>

\* One iteration of the loop of lines 133-150.
CheckPrettierFile ==
  /\ pc = "prettier"
  /\ idx <= Len(js_ts_files)
  /\ \E o \in {"0", "1", "raise"} :
       /\ calls' = Append(calls, Call("prettier --check", js_ts_files[idx], o))
       /\ results' = AppendTo(results, "prettier", PrettierFileEntries(js_ts_files[idx], o))
  /\ IF idx = Len(js_ts_files)
       THEN /\ pc' = AfterPrettier
            /\ idx' = 1
       ELSE /\ pc' = pc
            /\ idx' = idx + 1
  /\ UNCHANGED <<caller, project, disk, python_files, js_ts_files, phases, ret, out, ncalls>>

(* --------------------------- specifications --------------------------- *)
Next ==
  \/ MainUsage
  \/ MainPathMissing
  \/ MainStart
  \/ AnalyzeDiscover
  \/ RunPylint
  \/ RunFlake8Setup
  \/ RunFlake8File
  \/ CheckFormattingFile
  \/ RunEslintProbe
  \/ RunEslintFile
  \/ CheckPrettierProbe
  \/ CheckPrettierFile
  \/ AnalyzeReturn
  \/ MainPrint

Spec == Init /\ [][Next]_vars

\* check_formatting called directly, up to MaxRuns times, on an analyzer
\* whose file lists find_files has filled.
InitDirect ==
  /\ InitCommon
  /\ pc = "idle"
  /\ caller = "direct"
  /\ python_files = FindPython(ProjectPath, project)
  /\ js_ts_files = FindJsTs(ProjectPath, project)

CallCheckFormatting ==
  /\ pc = "idle"
  /\ ncalls < MaxRuns
  /\ ncalls' = ncalls + 1
  /\ idx' = 1
  /\ IF python_files = <<>>
       THEN /\ pc' = "idle"
            /\ phases' = Append(phases, "check_formatting")
       ELSE /\ pc' = "formatting"
            /\ phases' = phases
  /\ UNCHANGED <<caller, project, disk, python_files, js_ts_files, results,
                 calls, ret, out>>

NextDirect == CallCheckFormatting \/ CheckFormattingFile

SpecDirect == InitDirect /\ [][NextDirect]_vars

(* ====================== properties of the program ===================== *)
\* Helpers for the properties.
Max(S) == CHOOSE m \in S : \A x \in S : x <= m
LastIndexOf(s, ch) ==
  LET D == { i \in 1 .. Len(s) : s[i] = ch } IN IF D = {} THEN 0 ELSE Max(D)
\* The last path component, and the extension: the characters after the last
\* dot of the name (<<>> when the name has no dot).
Basename(path) == SubSeq(path, LastIndexOf(path, "/") + 1, Len(path))
Ext(path) ==
  LET n == Basename(path)
  IN  IF LastIndexOf(n, ".") = 0 THEN <<>>
      ELSE SubSeq(n, LastIndexOf(n, ".") + 1, Len(n))
PrimaryExts == { <<"p", "y">> }
SecondaryExts == { <<"j", "s">>, <<"j", "s", "x">>, <<"t", "s">>, <<"t", "s", "x">> }

IsPrefix(s, t) == Len(s) <= Len(t) /\ SubSeq(t, 1, Len(s)) = s
\* Positions of the log holding a call of `site` on `file`.
CallsOn(site, file) ==
  { i \in 1 .. Len(calls) : calls[i].site = site /\ calls[i].arg = file }
CallsAt(site) == { i \in 1 .. Len(calls) : calls[i].site = site }
\* Positions of a bucket holding an entry that names `file`.
EntriesOn(tool, file) ==
  { i \in 1 .. Len(results[tool]) : results[tool][i].file = file }
Invoked(phase) == phase \in Range(phases)
AnalyzeEnded == pc \in {"returned", "printed", "raised"}

\* C1: every check phase is total, so analyze() always returns a report and
\* never raises: no run reaches the state in which an exception has left
\* analyze.
C1_AnalyzeNeverRaises == pc # "raised"

NoRecognizedFile ==
  \A i \in 1 .. Len(project) : Ext(project[i]) \notin PrimaryExts \cup SecondaryExts
\* C2: in a project without any file of a recognized extension, analyze()
\* returns the single-key empty-project error report and no external tool
\* (check or version probe) is ever called.
C2_EmptyProjectNoTools ==
  (NoRecognizedFile /\ pc \notin {"main", "find", "exit1"}) =>
     /\ pc \in {"returned", "printed"}
     /\ calls = <<>>
     /\ phases = <<"find_files">>
     /\ Len(ret) = 1
     /\ ret[1].key = "error"
     /\ ret[1].type = "str"
     /\ ret[1].items = ErrorMessage
C2_Witness ==
  /\ NoRecognizedFile
  /\ Len(project) = 2
  /\ pc = "printed"

EslintProbeFailed ==
  \E i \in CallsAt("eslint --version") : calls[i].outcome # "0"
\* C3: with a non-empty secondary file set, a failed ESLint version probe
\* (non-zero exit code, or the call raising) leaves exactly one entry in the
\* 'eslint' bucket and no per-file ESLint call is made.
C3_ProbeFailureOneEntry ==
  EslintProbeFailed =>
     /\ js_ts_files # <<>>
     /\ Len(results["eslint"]) = 1
     /\ CallsAt("eslint --format=json") = {}
C3_Witness ==
  /\ \E i \in CallsAt("eslint --version") : calls[i].outcome = "raise"
  /\ Len(js_ts_files) = 2
  /\ pc = "returned"

EslintReturned == Invoked("run_eslint") /\ pc \notin {"eslint_probe", "eslint"}
EslintProbeOk == \E i \in CallsAt("eslint --version") : calls[i].outcome = "0"
\* C4: after a successful probe, a failure on one file is recorded as an
\* entry for that file and does not end the phase: once run_eslint has
\* returned, every file of js_ts_files has been invoked exactly once, each
\* failed file has an entry naming it and each file with reported issues has
\* its entry.
C4_EslintFailureDoesNotAbort ==
  (EslintReturned /\ EslintProbeOk) =>
     \A k \in 1 .. Len(js_ts_files) :
        LET f == js_ts_files[k]
            cs == CallsOn("eslint --format=json", f)
        IN  /\ Cardinality(cs) = 1
            /\ \A i \in cs :
                 /\ EslintFileRaises(calls[i].outcome) => EntriesOn("eslint", f) # {}
                 /\ (~EslintFileRaises(calls[i].outcome) /\ calls[i].outcome = "[issues]")
                      => Cardinality(EntriesOn("eslint", f)) = 1

ExpectedPhases ==
  <<"find_files">>
  \o (IF python_files # <<>> THEN <<"run_pylint", "run_flake8", "check_formatting">> ELSE <<>>)
  \o (IF js_ts_files # <<>> THEN <<"run_eslint", "check_prettier">> ELSE <<>>)
\* C5: analyze() runs find_files, then run_pylint, run_flake8,
\* check_formatting exactly when python_files is non-empty, then run_eslint,
\* check_prettier exactly when js_ts_files is non-empty: when analyze has
\* ended, the phases invoked are exactly those, in that order.
C5_PhaseOrder == AnalyzeEnded => phases = ExpectedPhases

Flake8Returned == Invoked("run_flake8") /\ pc \notin {"flake8", "raised"}
\* C6: once run_flake8 has returned, each primary file was checked exactly
\* once and the 'flake8' bucket holds, per file: exactly one dict entry with
\* the non-empty statistics when the check reported error-level statistics,
\* no entry when it reported none, exactly one error string when the check
\* raised; and nothing else.
C6_Flake8Entries ==
  Flake8Returned =>
     /\ \A k \in 1 .. Len(python_files) :
          LET f == python_files[k]
              cs == CallsOn("style_guide.check_files", f)
              es == EntriesOn("flake8", f)
          IN  /\ Cardinality(cs) = 1
              /\ \A i \in cs :
                   IF calls[i].outcome.raised
                     THEN /\ Cardinality(es) = 1
                          /\ \A j \in es : results["flake8"][j].kind = "str"
                   ELSE IF calls[i].outcome.stats # <<>>
                     THEN /\ Cardinality(es) = 1
                          /\ \A j \in es :
                               /\ results["flake8"][j].kind = "dict"
                               /\ results["flake8"][j].data = calls[i].outcome.stats
                               /\ results["flake8"][j].data # <<>>
                   ELSE es = {}
     /\ \A j \in 1 .. Len(results["flake8"]) :
          results["flake8"][j].file \in Range(python_files)
C6_Witness ==
  /\ Flake8Returned
  /\ Len(python_files) = 2
  /\ \E i \in CallsOn("style_guide.check_files", python_files[1]) : calls[i].outcome.raised
  /\ \E i \in CallsOn("style_guide.check_files", python_files[2]) :
       ~calls[i].outcome.raised /\ calls[i].outcome.stats # <<>>
  /\ Len(results["flake8"]) = 2

CleanCond == [read |-> "ok", black |-> "NothingChanged", isort |-> "sorted"]
RunsOver(f) == Cardinality(CallsOn("open", f))
\* C7: check_formatting processes every primary file whatever happened on
\* earlier files: after each completed run every file has been read once
\* more.  Per check of a file the black check and the isort check contribute
\* at most one entry each; a file that is correctly formatted and correctly
\* import-sorted has no entry, also after the phase is repeated; a read
\* failure or black crash leaves an entry naming that file for each run.
C7_FormattingPerFile ==
  /\ \A k \in 1 .. Len(python_files) :
       LET f == python_files[k]
           es == EntriesOn("formatting", f)
           blackEs == { j \in es : results["formatting"][j].tool = "black" }
       IN  /\ Cardinality(blackEs) <= RunsOver(f)
           /\ Cardinality(es \ blackEs) <= RunsOver(f)
           /\ disk[f] = CleanCond => es = {}
           /\ disk[f].read = "raise" =>
                /\ Cardinality(es) = RunsOver(f)
                /\ \A j \in es : results["formatting"][j].kind = "str"
           /\ disk[f].black = "raise" => Cardinality(blackEs) = RunsOver(f)
           /\ (pc \in {"idle", "returned", "printed"}) =>
                RunsOver(f) = Cardinality({ i \in 1 .. Len(phases) : phases[i] = "check_formatting" })
  /\ \A j \in 1 .. Len(results["formatting"]) :
       results["formatting"][j].file \in Range(python_files)
C7_Witness ==
  /\ pc = "idle"
  /\ ncalls = 2
  /\ Len(python_files) = 2
  /\ disk[python_files[1]].read = "raise"
  /\ disk[python_files[2]] = CleanCond
  /\ RunsOver(python_files[2]) = 2
  /\ Len(results["formatting"]) = 2

Owner(p) ==
  CASE p = "pylint" -> "pylint"
    [] p \in {"flake8_setup", "flake8"} -> "flake8"
    [] p = "formatting" -> "formatting"
    [] p \in {"eslint_probe", "eslint"} -> "eslint"
    [] p \in {"prettier_probe", "prettier"} -> "prettier"
    [] OTHER -> "none"
C8_Step ==
  /\ DOMAIN results' = Tools
  /\ \A t \in Tools :
       /\ IsPrefix(results[t], results'[t])
       /\ results'[t] # results[t] => t = Owner(pc)
  /\ pc # "find" => (python_files' = python_files /\ js_ts_files' = js_ts_files)
  /\ (pc = "return" /\ pc' = "returned") =>
       /\ Len(ret') = Len(ToolOrder)
       /\ \A i \in 1 .. Len(ToolOrder) :
            ret'[i].key = ToolOrder[i] /\ ret'[i].items = results[ToolOrder[i]]
NumEntries(b) == IF b.type = "str" THEN 1 ELSE Len(b.items)
ItemLines(key) ==
  Cardinality({ j \in 1 .. Len(out) : out[j].kind = "item" /\ out[j].text = key })
\* C9: for every report analyze() returns, main prints per key the
\* upper-cased key, then "No issues found" for an empty bucket or exactly one
\* line per entry; the empty-project report holds one entry, its message.
C9_OneLinePerEntry ==
  pc = "printed" =>
     \A i \in 1 .. Len(ret) :
        /\ \E j \in 1 .. Len(out) : out[j].kind = "header" /\ out[j].text = Upper(ret[i].key)
        /\ ItemLines(ret[i].key) = NumEntries(ret[i])
        /\ NumEntries(ret[i]) = 0 <=>
             (\E j \in 1 .. Len(out) : out[j].kind = "none" /\ out[j].item = ret[i].key)

Discovered == pc \notin {"main", "find", "exit1"}
\* C10: after discovery each file of the directory is in python_files
\* exactly when its extension is py and in js_ts_files exactly when its
\* extension is js, jsx, ts or tsx, never in both; the file sets hold nothing
\* else, and no report entry names a file of another extension.
C10_ClassifiedByExtension ==
  Discovered =>
     /\ \A i \in 1 .. Len(project) :
          LET p == Join(ProjectPath, project[i])
          IN  /\ p \in Range(python_files) <=> Ext(project[i]) \in PrimaryExts
              /\ p \in Range(js_ts_files) <=> Ext(project[i]) \in SecondaryExts
              /\ ~(p \in Range(python_files) /\ p \in Range(js_ts_files))
     /\ \A p \in Range(python_files) \cup Range(js_ts_files) :
          \E i \in 1 .. Len(project) : p = Join(ProjectPath, project[i])
     /\ \A t \in Tools : \A j \in 1 .. Len(results[t]) :
          results[t][j].file # NoFile =>
             Ext(results[t][j].file) \in PrimaryExts \cup SecondaryExts
C10_Witness ==
  /\ pc = "printed"
  /\ Len(project) = 2
  /\ \E i \in 1 .. 2 : Ext(project[i]) \notin PrimaryExts \cup SecondaryExts
  /\ \E t \in Tools : \E j \in 1 .. Len(results[t]) : results[t][j].file # NoFile

====
